---- MODULE Spec2Model ----
(***************************************************************************)
(* Model of the wallet program of src/accounts/accounts.go (package main,  *)
(* lines 246-364): key-pair generation, Ethereum and Bitcoin address       *)
(* derivation, Base58Check validation; and of the two counter tests of     *)
(* src/tests/a_ atomic_test.go.                                            *)
(*                                                                         *)
(* Bytes are integers 0..255, byte slices are sequences of bytes, strings  *)
(* are sequences of one-character strings.                                 *)
(***************************************************************************)
EXTENDS Integers, Sequences, FiniteSets, TLC

\* ------------------------------------------------------------------ bounds
\* a coordinate's big-endian form may be up to MaxShort bytes shorter than 32
MaxShort == 1
\* coordinates are drawn from the seeds 0..MaxSeed
MaxSeed == 2
\* byte sequences given to the codec have at most MaxLen bytes
MaxLen == 3
\* hand-made payloads given to the validator have a body of at most MaxBody bytes
MaxBody == 2
\* number of goroutines the counter tests spawn
NGoroutines == 3

\* ------------------------------------------------------- program constants
walletVersion == 0
compressedPublicKeyPrefix == 2
addressChecksumLen == 4
\* pubKey[:32], the width of one secp256k1 coordinate
CoordLen == 32
\* publicHash[len(publicHash)-20:]
EthAddressLen == 20
\* digest widths of the hash primitives
Sha256Size == 32
Ripemd160Size == 20
Keccak256Size == 32
\* radix of the Base58 alphabet, radix of a byte
Radix58 == 58
Radix256 == 256
\* b58 table entry of a character outside the alphabet
NoDigit == 255

\* ----------------------------------------------------------- byte helpers
RECURSIVE LeadingCount(_, _, _)
\* number of leading elements of s equal to z, counted from position i
LeadingCount(s, z, i) ==
  IF i > Len(s) \/ s[i] # z THEN i - 1 ELSE LeadingCount(s, z, i + 1)

Repeat(x, n) == [k \in 1..n |-> x]

Drop(s, n) == SubSeq(s, n + 1, Len(s))

\* big.Int.Bytes(): the big-endian form without leading zero bytes
BigBytes(bs) == Drop(bs, LeadingCount(bs, 0, 1))

RECURSIVE Rem(_, _, _, _)
\* the number written by the first k digits of ds in radix from, modulo d
Rem(ds, from, d, k) ==
  IF k = 0 THEN 0 ELSE (Rem(ds, from, d, k - 1) * from + ds[k]) % d

\* big.Int.DivMod by d of the number written by the big-endian digit sequence
\* ds of radix from, by long division: digit k of the quotient is the
\* remainder so far, shifted, plus digit k, divided by d
DivMod(ds, from, d) ==
  [q |-> [k \in 1..Len(ds) |-> (Rem(ds, from, d, k - 1) * from + ds[k]) \div d],
   r |-> Rem(ds, from, d, Len(ds))]

RECURSIVE ToRadix(_, _, _)
\* the number written by ds in radix from, written in radix to (no leading zeros)
ToRadix(ds, from, to) ==
  LET s == BigBytes(ds)
  IN IF s = <<>> THEN <<>>
     ELSE LET qr == DivMod(s, from, to)
          IN Append(ToRadix(qr.q, from, to), qr.r)

\* ------------------------------------------------------------ Base58 codec
\* base58.Encode and base58.Decode are the imported package
\* github.com/btcsuite/btcutil/base58; they are modelled after their contract:
\* the bytes read as a big-endian number written in radix 58, one
\* alphabetIdx0 per leading zero byte, and the empty slice on a bad character.
alphabet ==
  << "1","2","3","4","5","6","7","8","9",
     "A","B","C","D","E","F","G","H","J","K","L","M","N","P","Q","R","S","T",
     "U","V","W","X","Y","Z",
     "a","b","c","d","e","f","g","h","i","j","k","m","n","o","p","q","r","s",
     "t","u","v","w","x","y","z" >>

alphabetIdx0 == "1"

\* the decoding table: digit value of a character, NoDigit outside the alphabet
b58(c) ==
  IF \E k \in 1..Radix58 : alphabet[k] = c
  THEN (CHOOSE k \in 1..Radix58 : alphabet[k] = c) - 1
  ELSE NoDigit

\* base58.Encode: digits of the number, most significant first, after one
\* alphabetIdx0 per leading zero byte
Base58Encode(b) ==
  LET digits == ToRadix(b, Radix256, Radix58)
      zeros == LeadingCount(b, 0, 1)
  IN Repeat(alphabetIdx0, zeros) \o [k \in 1..Len(digits) |-> alphabet[digits[k] + 1]]

\* base58.Decode as it would be without the numZeros loop
Base58DecodeNoZeros(s) ==
  IF \E k \in 1..Len(s) : b58(s[k]) = NoDigit THEN <<>>
  ELSE ToRadix([k \in 1..Len(s) |-> b58(s[k])], Radix58, Radix256)

\* base58.Decode: the empty slice on a character outside the alphabet, else
\* numZeros zero bytes followed by the bytes of the number
Base58Decode(s) ==
  IF \E k \in 1..Len(s) : b58(s[k]) = NoDigit THEN <<>>
  ELSE LET tmpval == ToRadix([k \in 1..Len(s) |-> b58(s[k])], Radix58, Radix256)
           numZeros == LeadingCount(s, alphabetIdx0, 1)
       IN Repeat(0, numZeros) \o tmpval

\* ---------------------------------------------------------- hash pipeline
\* crypto/sha256, ripemd160 and crypto.Keccak256 are imported packages; each
\* is represented by a digest that has what the program relies on: it is a
\* total, deterministic function of the input bytes with a fixed width.
RECURSIVE Mix(_, _, _)
\* the bytes lo..hi of bs, each weighted by its position, added up
Mix(bs, lo, hi) ==
  IF lo > hi THEN 0
  ELSE IF lo = hi THEN ((bs[lo] + 1) * (lo * lo + 7)) % 65521
  ELSE LET mid == (lo + hi) \div 2
       IN (Mix(bs, lo, mid) + Mix(bs, mid + 1, hi)) % 65521

\* a deterministic, total digest of fixed width n; tag separates the
\* primitives; the digest begins with st % 3 zero bytes, so that digests with
\* leading zero bytes are as common as digests without
Digest(tag, n, bs) ==
  LET st == (Mix(bs, 1, Len(bs)) + tag) % 65521
  IN [k \in 1..n |-> IF k <= (st % 3) THEN 0 ELSE ((st + k) * (2 * k + tag)) % 256]

Sha256(bs) == Digest(1, Sha256Size, bs)
Ripemd160(bs) == Digest(3, Ripemd160Size, bs)
Keccak256(bs) == Digest(5, Keccak256Size, bs)

\* ------------------------------------------------------------------ state
VARIABLES
  pc,          \* position of main: start, generated, btc, eth, done, panicked
  wallet,      \* the Wallet: coordinates of the private key's point, PublicKey
  btcAddress,  \* bitcoinAddress of main
  ethAddress,  \* ethAddress of main
  valid,       \* outcome of ValidateAddress(bitcoinAddress) in main
  err,         \* the value main panicked with, "" when it did not
  draws,       \* number of calls of ecdsa.GenerateKey on rand.Reader
  vpc,         \* a caller of ValidateAddress: idle, called, returned
  vAddress,    \* the address string it passes
  vOut,        \* the outcome of the call
  cpc,         \* a caller of the codec: idle, chosen, encoded, decoded
  cBytes,      \* the byte slice it encodes
  cText,       \* base58.Encode(cBytes)
  cBack,       \* base58.Decode(cText)
  test,        \* the running test: "mutex" (TestMutexAdd) or "atomic" (TestAtomicAdd)
  mpc,         \* position of the test function: loop, wait, done
  i,           \* loop counter of the test function
  a,           \* the shared counter
  wg,          \* counter of the WaitGroup
  mu,          \* holder of the Mutex, 0 when unlocked
  gpc,         \* position of each goroutine
  reg          \* each goroutine's copy of a while it executes a += 1

walletVars == <<pc, wallet, btcAddress, ethAddress, valid, err, draws>>
validateVars == <<vpc, vAddress, vOut>>
codecVars == <<cpc, cBytes, cText, cBack>>
testVars == <<test, mpc, i, a, wg, mu, gpc, reg>>
vars == <<pc, wallet, btcAddress, ethAddress, valid, err, draws, vpc, vAddress, vOut,
          cpc, cBytes, cText, cBack, test, mpc, i, a, wg, mu, gpc, reg>>

\* an outcome of a call returning bool: it panicked, or it returned ret
Returned(r) == [panic |-> FALSE, ret |-> r]
Panicked == [panic |-> TRUE, ret |-> FALSE]
NoOutcome == [panic |-> FALSE, ret |-> FALSE]

\* ----------------------------------------------------------------- wallet
\* checksum: the first addressChecksumLen bytes of the double SHA-256
checksum(payload) ==
  LET firstSHA == Sha256(payload)
      secondSHA == Sha256(firstSHA)
  IN SubSeq(secondSHA, 1, addressChecksumLen)

\* HashPubKey as it would be if it hashed the whole key instead of pubKey[:32]
HashPubKeyWholeKey(pubKey) ==
  Ripemd160(Sha256(<<compressedPublicKeyPrefix>> \o pubKey))

\* HashPubKey: RIPEMD160(SHA256(prefix, pubKey[:32])); needs Len(pubKey) >= CoordLen
HashPubKey(pubKey) ==
  LET publicSHA256 == Sha256(<<compressedPublicKeyPrefix>> \o SubSeq(pubKey, 1, CoordLen))
  IN Ripemd160(publicSHA256)

\* GetBtcAddress as it would be if the checksum left out the version byte
GetBtcAddressChecksumOfHash(w) ==
  LET pubKeyHash == HashPubKey(w.PublicKey)
  IN Base58Encode(<<walletVersion>> \o pubKeyHash \o checksum(pubKeyHash))

\* Wallet.GetBtcAddress
GetBtcAddress(w) ==
  LET pubKeyHash == HashPubKey(w.PublicKey)
      walletVersionedPayload == <<walletVersion>> \o pubKeyHash
      fullPayload == walletVersionedPayload \o checksum(walletVersionedPayload)
  IN Base58Encode(fullPayload)

hextable == <<"0","1","2","3","4","5","6","7","8","9","a","b","c","d","e","f">>

\* hex.EncodeToString: two characters of hextable per byte, high nibble first
HexEncodeToString(bs) ==
  [k \in 1..(2 * Len(bs)) |->
     LET v == bs[(k + 1) \div 2]
     IN IF k % 2 = 1 THEN hextable[(v \div 16) + 1] ELSE hextable[(v % 16) + 1]]

\* GetEthAddress as it would be if it took publicHash[:20]
GetEthAddressFirst20(w) ==
  HexEncodeToString(SubSeq(Keccak256(w.PublicKey), 1, EthAddressLen))

\* Wallet.GetEthAddress
GetEthAddress(w) ==
  LET publicHash == Keccak256(w.PublicKey)
  IN HexEncodeToString(SubSeq(publicHash, Len(publicHash) - EthAddressLen + 1, Len(publicHash)))

\* bytes.Compare: -1, 0 or 1 by lexicographic order
RECURSIVE BytesCompare(_, _)
BytesCompare(x, y) ==
  IF x = <<>> /\ y = <<>> THEN 0
  ELSE IF x = <<>> THEN -1
  ELSE IF y = <<>> THEN 1
  ELSE IF x[1] < y[1] THEN -1
  ELSE IF x[1] > y[1] THEN 1
  ELSE BytesCompare(Tail(x), Tail(y))

\* ValidateAddress as it would be if it tested bytes.Compare(...) >= 0
ValidateAddressGreaterOrEqual(address) ==
  LET decoded == Base58Decode(address)
      n == Len(decoded)
  IN IF n - addressChecksumLen < 1 THEN Panicked
     ELSE LET actualChecksum == SubSeq(decoded, n - addressChecksumLen + 1, n)
              targetChecksum == checksum(SubSeq(decoded, 1, n - addressChecksumLen))
          IN Returned(BytesCompare(actualChecksum, targetChecksum) >= 0)

\* ValidateAddress: the slice expressions of lines 347 and 349 panic when the
\* decoded slice has fewer than addressChecksumLen + 1 bytes
ValidateAddress(address) ==
  LET decoded == Base58Decode(address)
      n == Len(decoded)
  IN IF n - addressChecksumLen < 0 THEN Panicked
     ELSE IF 1 > n - addressChecksumLen THEN Panicked
     ELSE LET actualChecksum == SubSeq(decoded, n - addressChecksumLen + 1, n)
              version == decoded[1]
              pubKeyHash == SubSeq(decoded, 2, n - addressChecksumLen)
              targetChecksum == checksum(<<version>> \o pubKeyHash)
          IN Returned(BytesCompare(actualChecksum, targetChecksum) = 0)

\* a coordinate as the generator can draw it: n bytes, the first not zero
Coord(seed, n) ==
  [k \in 1..n |-> IF k = 1 THEN 1 + ((seed * 29) % 255)
                  ELSE (seed * (k + 5) * 37 + k * 11) % 256]

CoordLens == (CoordLen - MaxShort)..CoordLen
Seeds == 0..MaxSeed

\* newKeyPair: the public key is X.Bytes() followed by Y.Bytes()
newKeyPair(X, Y) == [X |-> X, Y |-> Y, PublicKey |-> BigBytes(X) \o BigBytes(Y)]

NoWallet == [X |-> <<>>, Y |-> <<>>, PublicKey |-> <<>>]

\* NewWallet with a working entropy source: ecdsa.GenerateKey draws a point
NewWallet ==
  /\ pc = "start"
  /\ \E sx \in Seeds, sy \in Seeds, nx \in CoordLens, ny \in CoordLens :
       wallet' = newKeyPair(Coord(sx, nx), Coord(sy + MaxSeed + 1, ny))
  /\ draws' = draws + 1
  /\ pc' = "generated"
  /\ UNCHANGED <<btcAddress, ethAddress, valid, err, validateVars, codecVars, testVars>>

\* newKeyPair as it would be if it ignored err and went on with the zero key
NewWalletNoEntropyIgnored ==
  /\ pc = "start"
  /\ draws' = draws + 1
  /\ err' = "entropy"
  /\ pc' = "generated"
  /\ UNCHANGED <<wallet, btcAddress, ethAddress, valid, validateVars, codecVars, testVars>>

\* NewWallet when rand.Reader cannot supply bytes: ecdsa.GenerateKey returns
\* err and newKeyPair calls log.Panic(err)
NewWalletNoEntropy ==
  /\ pc = "start"
  /\ draws' = draws + 1
  /\ err' = "entropy"
  /\ pc' = "panicked"
  /\ UNCHANGED <<wallet, btcAddress, ethAddress, valid, validateVars, codecVars, testVars>>

\* main: bitcoinAddress := wallet.GetBtcAddress()
MainGetBtcAddress ==
  /\ pc = "generated"
  /\ IF Len(wallet.PublicKey) < CoordLen
     THEN pc' = "panicked" /\ err' = "slice bounds out of range" /\ UNCHANGED btcAddress
     ELSE pc' = "btc" /\ btcAddress' = GetBtcAddress(wallet) /\ UNCHANGED err
  /\ UNCHANGED <<wallet, ethAddress, valid, draws, validateVars, codecVars, testVars>>

\* main: ethAddress := wallet.GetEthAddress()
MainGetEthAddress ==
  /\ pc = "btc"
  /\ ethAddress' = GetEthAddress(wallet)
  /\ pc' = "eth"
  /\ UNCHANGED <<wallet, btcAddress, valid, err, draws, validateVars, codecVars, testVars>>

\* main: ValidateAddress(string(bitcoinAddress))
MainValidateAddress ==
  /\ pc = "eth"
  /\ valid' = ValidateAddress(btcAddress)
  /\ pc' = IF valid'.panic THEN "panicked" ELSE "done"
  /\ err' = IF valid'.panic THEN "slice bounds out of range" ELSE err
  /\ UNCHANGED <<wallet, btcAddress, ethAddress, draws, validateVars, codecVars, testVars>>

\* -------------------------------------------------- callers of the validator
HandBytes == {0, 1, 255}

RECURSIVE SeqsUpTo(_, _)
\* the sequences over S of length at most n
SeqsUpTo(S, n) ==
  IF n = 0 THEN {<<>>}
  ELSE LET shorter == SeqsUpTo(S, n - 1)
       IN shorter \cup {Append(q, x) : q \in {t \in shorter : Len(t) = n - 1}, x \in S}

\* version byte and hash: hand-made ones, and ones as long as GetBtcAddress
\* makes them, or one byte longer
Bodies ==
  (SeqsUpTo(HandBytes, MaxBody) \ {<<>>})
  \cup {<<v>> \o Ripemd160(<<s>>) \o extra : v \in {walletVersion, 5}, s \in 0..1,
                                            extra \in {<<>>, <<9>>}}

\* chk with byte k changed, unchanged for k = 0
Corrupt(chk, k) == [j \in 1..Len(chk) |-> IF j = k THEN (chk[j] + 1) % 256 ELSE chk[j]]

Payloads ==
  {body \o Corrupt(checksum(body), k) : body \in Bodies, k \in 0..addressChecksumLen}
  \cup SeqsUpTo({0, 7}, addressChecksumLen)

OutsideAlphabet == {"0", "O", "I", "l"}

\* the strings a caller passes: encoded payloads, and encoded payloads with a
\* character outside the alphabet put in front or behind
Addresses ==
  {Base58Encode(p) : p \in Payloads}
  \cup {<<c>> \o Base58Encode(body \o checksum(body)) : c \in OutsideAlphabet, body \in Bodies}
  \cup {Base58Encode(body \o checksum(body)) \o <<c>> : c \in OutsideAlphabet, body \in Bodies}

\* a caller passes address to ValidateAddress
CallValidateAddress ==
  /\ vpc = "idle"
  /\ \E address \in Addresses : vAddress' = address
  /\ vOut' = NoOutcome
  /\ vpc' = "called"
  /\ UNCHANGED <<walletVars, codecVars, testVars>>

\* ValidateAddress runs: it returns a bool or panics
RunValidateAddress ==
  /\ vpc = "called"
  /\ vOut' = ValidateAddress(vAddress)
  /\ vpc' = IF vOut'.panic THEN "panicked" ELSE "returned"
  /\ UNCHANGED <<vAddress, walletVars, codecVars, testVars>>

\* ------------------------------------------------------ callers of the codec
CodecBytes == {0, 1, 57, 58, 255}

\* a caller picks the bytes to encode
CallEncode ==
  /\ cpc = "idle"
  /\ \E b \in SeqsUpTo(CodecBytes, MaxLen) : cBytes' = b
  /\ cText' = <<>>
  /\ cBack' = <<>>
  /\ cpc' = "chosen"
  /\ UNCHANGED <<walletVars, validateVars, testVars>>

\* base58.Encode runs
RunEncode ==
  /\ cpc = "chosen"
  /\ cText' = Base58Encode(cBytes)
  /\ cpc' = "encoded"
  /\ UNCHANGED <<cBytes, cBack, walletVars, validateVars, testVars>>

\* base58.Decode runs on the encoded text
RunDecode ==
  /\ cpc = "encoded"
  /\ cBack' = Base58Decode(cText)
  /\ cpc' = "decoded"
  /\ UNCHANGED <<cBytes, cText, walletVars, validateVars, testVars>>

\* ------------------------------------------------------- the counter tests
Goroutines == 1..NGoroutines

\* the largest int32
MaxInt32 == 2147483647

\* a += 1 and atomic.AddInt32(&a, 1) on an int32: wraps around at MaxInt32
Int32Inc(x) == IF x = MaxInt32 THEN (0 - MaxInt32) - 1 ELSE x + 1

\* the loop body: wg.Add(1); go func() {...}()
TestSpawn ==
  /\ mpc = "loop"
  /\ i < NGoroutines
  /\ wg' = wg + 1
  /\ gpc' = [gpc EXCEPT ![i + 1] = IF test = "mutex" THEN "lock" ELSE "add"]
  /\ i' = i + 1
  /\ UNCHANGED <<test, mpc, a, mu, reg, walletVars, validateVars, codecVars>>

\* the loop ends
TestLoopEnd ==
  /\ mpc = "loop"
  /\ i >= NGoroutines
  /\ mpc' = "wait"
  /\ UNCHANGED <<test, i, a, wg, mu, gpc, reg, walletVars, validateVars, codecVars>>

\* wg.Wait() returns when the counter is zero
TestWait ==
  /\ mpc = "wait"
  /\ wg = 0
  /\ mpc' = "done"
  /\ UNCHANGED <<test, i, a, wg, mu, gpc, reg, walletVars, validateVars, codecVars>>

\* mu.Lock() as it would be if it did not wait for the holder
LockNoExclusion(g) ==
  /\ gpc[g] = "lock"
  /\ mu' = g
  /\ gpc' = [gpc EXCEPT ![g] = "load"]
  /\ UNCHANGED <<test, mpc, i, a, wg, reg, walletVars, validateVars, codecVars>>

\* mu.Lock()
Lock(g) ==
  /\ gpc[g] = "lock"
  /\ mu = 0
  /\ mu' = g
  /\ gpc' = [gpc EXCEPT ![g] = "load"]
  /\ UNCHANGED <<test, mpc, i, a, wg, reg, walletVars, validateVars, codecVars>>

\* a += 1, the read of a
Load(g) ==
  /\ gpc[g] = "load"
  /\ reg' = [reg EXCEPT ![g] = a]
  /\ gpc' = [gpc EXCEPT ![g] = "store"]
  /\ UNCHANGED <<test, mpc, i, a, wg, mu, walletVars, validateVars, codecVars>>

\* a += 1, the write of a
Store(g) ==
  /\ gpc[g] = "store"
  /\ a' = Int32Inc(reg[g])
  /\ gpc' = [gpc EXCEPT ![g] = "unlock"]
  /\ UNCHANGED <<test, mpc, i, wg, mu, reg, walletVars, validateVars, codecVars>>

\* mu.Unlock()
Unlock(g) ==
  /\ gpc[g] = "unlock"
  /\ mu' = 0
  /\ gpc' = [gpc EXCEPT ![g] = "done"]
  /\ UNCHANGED <<test, mpc, i, a, wg, reg, walletVars, validateVars, codecVars>>

\* atomic.AddInt32(&a, 1)
AtomicAdd(g) ==
  /\ gpc[g] = "add"
  /\ a' = Int32Inc(a)
  /\ gpc' = [gpc EXCEPT ![g] = "done"]
  /\ UNCHANGED <<test, mpc, i, wg, mu, reg, walletVars, validateVars, codecVars>>

\* the deferred wg.Done()
Done(g) ==
  /\ gpc[g] = "done"
  /\ wg' = wg - 1
  /\ gpc' = [gpc EXCEPT ![g] = "exited"]
  /\ UNCHANGED <<test, mpc, i, a, mu, reg, walletVars, validateVars, codecVars>>

\* --------------------------------------------------------- specifications
InitWallet ==
  /\ pc = "start"
  /\ wallet = NoWallet
  /\ btcAddress = <<>>
  /\ ethAddress = <<>>
  /\ valid = NoOutcome
  /\ err = ""
  /\ draws = 0

InitValidate ==
  /\ vpc = "idle"
  /\ vAddress = <<>>
  /\ vOut = NoOutcome

InitCodec ==
  /\ cpc = "idle"
  /\ cBytes = <<>>
  /\ cText = <<>>
  /\ cBack = <<>>

InitTest ==
  /\ mpc = "loop"
  /\ i = 0
  /\ a = 0
  /\ wg = 0
  /\ mu = 0
  /\ gpc = [g \in Goroutines |-> "unborn"]
  /\ reg = [g \in Goroutines |-> 0]

Init == InitWallet /\ InitValidate /\ InitCodec /\ InitTest /\ test = "mutex"

\* main of the wallet program
Next ==
  \/ NewWallet
  \/ NewWalletNoEntropy
  \/ MainGetBtcAddress
  \/ MainGetEthAddress
  \/ MainValidateAddress

Spec == Init /\ [][Next]_vars

\* callers of ValidateAddress
NextValidate == CallValidateAddress \/ RunValidateAddress

SpecValidate == Init /\ [][NextValidate]_vars

\* callers of the codec
NextCodec == CallEncode \/ RunEncode \/ RunDecode

SpecCodec == Init /\ [][NextCodec]_vars

\* TestMutexAdd and TestAtomicAdd
InitTests ==
  InitWallet /\ InitValidate /\ InitCodec /\ InitTest /\ test \in {"mutex", "atomic"}

NextTests ==
  \/ TestSpawn
  \/ TestLoopEnd
  \/ TestWait
  \/ \E g \in Goroutines : Lock(g)
  \/ \E g \in Goroutines : Load(g)
  \/ \E g \in Goroutines : Store(g)
  \/ \E g \in Goroutines : Unlock(g)
  \/ \E g \in Goroutines : AtomicAdd(g)
  \/ \E g \in Goroutines : Done(g)

SpecTests == InitTests /\ [][NextTests]_vars

\* ------------------------------------------------------------- properties
Derived == pc \in {"btc", "eth", "done"}

LeftPad(bs, n) == Repeat(0, n - Len(bs)) \o bs

\* C1: for every key pair the generator produces, validating the Bitcoin
\* address derived from it returns true (and neither step panics)
C1_GeneratedAddressValidates ==
  /\ pc = "done" => valid = Returned(TRUE)
  /\ pc = "panicked" => err = "entropy"

C1_Witness == pc = "done" /\ valid = Returned(TRUE) /\ btcAddress # <<>>

\* C2: ValidateAddress never panics; on the empty string, on a string with a
\* character outside the alphabet and on a payload of fewer than 5 bytes it
\* returns false
C2_ValidateTotal ==
  /\ vpc # "panicked"
  /\ (vpc = "returned"
       /\ (\/ vAddress = <<>>
           \/ \E k \in 1..Len(vAddress) : b58(vAddress[k]) = NoDigit
           \/ Len(Base58Decode(vAddress)) < 1 + addressChecksumLen))
     => vOut = Returned(FALSE)

\* C3: ValidateAddress returns false for every address whose decoded payload
\* is not exactly 1 + 20 + 4 bytes long, also when its checksum is right
C3_RejectsOtherLengths ==
  (vpc = "returned"
   /\ Len(Base58Decode(vAddress)) # 1 + Ripemd160Size + addressChecksumLen)
  => vOut.ret = FALSE

\* the checksum a payload of at least 5 bytes should end with
Expected(p) ==
  SubSeq(Sha256(Sha256(<<p[1]>> \o SubSeq(p, 2, Len(p) - addressChecksumLen))),
         1, addressChecksumLen)

\* the bytes of the checksum at the end of p that differ from Expected(p)
Differing(p) ==
  {j \in 1..addressChecksumLen : p[Len(p) - addressChecksumLen + j] # Expected(p)[j]}

\* C4: for a payload of at least 5 bytes ValidateAddress returns true only
\* if all 4 trailing bytes equal the first 4 bytes of the double SHA-256 of
\* the bytes before them
C4_TrueOnlyOnChecksumMatch ==
  (vpc = "returned" /\ Len(Base58Decode(vAddress)) >= 1 + addressChecksumLen)
  => (vOut.ret => Differing(Base58Decode(vAddress)) = {})

C4_Witness ==
  /\ vpc = "returned"
  /\ Len(Base58Decode(vAddress)) >= 1 + addressChecksumLen
  /\ Differing(Base58Decode(vAddress)) = {addressChecksumLen}
  /\ vOut = Returned(FALSE)

\* C5: the public key of a generated pair is 64 bytes, X then Y, each
\* left-padded with zero bytes to 32 bytes
C5_PublicKeyPadded ==
  (pc \in {"generated", "btc", "eth", "done"})
  => /\ Len(wallet.PublicKey) = 2 * CoordLen
     /\ SubSeq(wallet.PublicKey, 1, CoordLen) = LeftPad(wallet.X, CoordLen)
     /\ SubSeq(wallet.PublicKey, CoordLen + 1, 2 * CoordLen) = LeftPad(wallet.Y, CoordLen)

\* C6: on a 64-byte public key GetBtcAddress does not panic and its result
\* decodes to 25 bytes: version 0x00, RIPEMD160(SHA256(0x02, key[0:32])),
\* and the first 4 bytes of the double SHA-256 of those 21 bytes
C6_BtcAddressLayout ==
  (Len(wallet.PublicKey) = 2 * CoordLen)
  => /\ err # "slice bounds out of range"
     /\ Derived =>
          LET d == Base58Decode(btcAddress)
          IN /\ Len(d) = 1 + Ripemd160Size + addressChecksumLen
             /\ d[1] = walletVersion
             /\ SubSeq(d, 2, 1 + Ripemd160Size)
                  = Ripemd160(Sha256(<<compressedPublicKeyPrefix>>
                                      \o SubSeq(wallet.PublicKey, 1, CoordLen)))
             /\ SubSeq(d, 2 + Ripemd160Size, Len(d))
                  = SubSeq(Sha256(Sha256(SubSeq(d, 1, 1 + Ripemd160Size))),
                           1, addressChecksumLen)

C6_Witness ==
  /\ Derived
  /\ Len(wallet.PublicKey) = 2 * CoordLen
  /\ HashPubKey(wallet.PublicKey)[1] = 0
  /\ Len(Base58Decode(btcAddress)) = 1 + Ripemd160Size + addressChecksumLen

LowerHexDigits ==
  {"0","1","2","3","4","5","6","7","8","9","a","b","c","d","e","f"}

\* the value of a hex digit
HexValue(c) ==
  CASE c = "0" -> 0 [] c = "1" -> 1 [] c = "2" -> 2 [] c = "3" -> 3
    [] c = "4" -> 4 [] c = "5" -> 5 [] c = "6" -> 6 [] c = "7" -> 7
    [] c = "8" -> 8 [] c = "9" -> 9 [] c = "a" -> 10 [] c = "b" -> 11
    [] c = "c" -> 12 [] c = "d" -> 13 [] c = "e" -> 14 [] c = "f" -> 15

\* the bytes a string of hex digits writes
HexBytes(str) ==
  [k \in 1..(Len(str) \div 2) |-> 16 * HexValue(str[2 * k - 1]) + HexValue(str[2 * k])]

\* C7: GetEthAddress returns 40 lowercase hex digits, the hex form of the
\* last 20 bytes of Keccak256(publicKey), without a "0x" prefix
C7_EthAddressForm ==
  (pc \in {"eth", "done"})
  => /\ Len(ethAddress) = 2 * EthAddressLen
     /\ \A k \in 1..Len(ethAddress) : ethAddress[k] \in LowerHexDigits
     /\ HexBytes(ethAddress)
          = SubSeq(Keccak256(wallet.PublicKey),
                   Keccak256Size - EthAddressLen + 1, Keccak256Size)

C7_Witness ==
  /\ pc = "eth"
  /\ Len(ethAddress) = 2 * EthAddressLen
  /\ \E k \in 1..Len(ethAddress) : ethAddress[k] \in {"a", "b", "c", "d", "e", "f"}

\* C8: decoding the encoding of a byte sequence gives the sequence back, of
\* the same length; each leading zero byte is one leading "1" of the text
C8_Base58RoundTrip ==
  /\ cpc = "decoded" => (cBack = cBytes /\ Len(cBack) = Len(cBytes))
  /\ cpc \in {"encoded", "decoded"}
       => LeadingCount(cText, alphabetIdx0, 1) = LeadingCount(cBytes, 0, 1)

C8_Witness ==
  /\ cpc = "decoded"
  /\ Len(cBytes) = MaxLen
  /\ cBytes[1] = 0
  /\ cBytes[2] = 0
  /\ cBack = cBytes

\* C9: when the entropy source cannot supply bytes, generation aborts with
\* the failure: no key pair, no second draw, nothing derived from a key
C9_EntropyFailureAborts ==
  (err = "entropy")
  => /\ pc = "panicked"
     /\ wallet = NoWallet
     /\ draws = 1
     /\ btcAddress = <<>>
     /\ ethAddress = <<>>
     /\ valid = NoOutcome

C9_Witness == err = "entropy" /\ pc = "panicked" /\ draws = 1

\* C10: in both tests wg.Wait returns only after every goroutine has
\* finished, and the counter then equals the number of goroutines
C10_NoLostIncrement ==
  (mpc = "done")
  => /\ \A g \in Goroutines : gpc[g] = "exited"
     /\ a = NGoroutines

C10_Witness == mpc = "done" /\ test = "mutex" /\ a = NGoroutines

====
